---- MODULE Spec2Model ----
(***************************************************************************)
(* Magnum::SceneTools::absoluteFieldTransformations2D() and                *)
(* absoluteFieldTransformations2DInto() (Magnum/SceneTools/Hierarchy.h).   *)
(* The 3D functions differ only in the matrix type; the model is the 2D    *)
(* instance, with Matrix3 values as row-major 9-tuples of integers.        *)
(*                                                                         *)
(* One call is one behaviour: Init is the moment of the call, with the     *)
(* scene and the arguments drawn from bounded sets; the actions are the    *)
(* precondition check, the call to orderClusterParents(), one step of the  *)
(* pass over the ordering and one step of the output loop.                 *)
(* The call draws the Parent field and the entries of the target field     *)
(* where it reads them.                                                    *)
(***************************************************************************)
EXTENDS Integers, Sequences, FiniteSets, TLC

\* Trade::SceneData::mappingBound() of the enumerated scenes.
MaxObjects == 3

\* Largest Trade::SceneData::fieldSize() of the target field.
MaxField == 2

Objects == 0 .. (MaxObjects - 1)

\* Parent value of a root object (Trade::SceneField::Parent stores -1).
NoParent == 0 - 1

----------------------------------------------------------------------------
(* Matrix3: 3x3 matrices, row-major.                                       *)

Identity == <<1, 0, 0, 0, 1, 0, 0, 0, 1>>

\* What a slot of the absolute-transformation table holds before the pass
\* writes it; distinguishable from every matrix.
Unknown == <<>>

\* Contents of a freshly allocated, not yet filled output array.
Uninitialized == <<0, 0, 0, 0, 0, 0, 0, 0, 0>>

\* Contents the caller's buffer holds before an Into call.
Stale == <<7, 7, 7, 7, 7, 7, 7, 7, 7>>

Cell(a, r, c) == a[3 * (r - 1) + c]

MulCell(a, b, k) ==
    LET r == ((k - 1) \div 3) + 1
        c == ((k - 1) % 3) + 1
    IN  Cell(a, r, 1) * Cell(b, 1, c) + Cell(a, r, 2) * Cell(b, 2, c)
          + Cell(a, r, 3) * Cell(b, 3, c)

\* Matrix3 operator*; a product with a slot that was never written is as
\* unspecified as the slot.
Mul(a, b) ==
    IF a = Unknown \/ b = Unknown THEN Unknown
    ELSE [k \in 1 .. 9 |-> MulCell(a, b, k)]

\* An affine 2D transformation with linear part ((n+2, 1), (1, 1)) and
\* translation (n, 1); no two of them commute.
Affine(n) == <<n + 2, 1, n, 1, 1, 1, 0, 0, 1>>

\* A non-identity global transformation: shear plus translation.
Shear == <<1, 2, 3, 0, 1, 5, 0, 0, 1>>

GlobalTransformations == {Identity, Shear}

\* The transformation field: a local transformation for every object.
TransformationFields == {[o \in Objects |-> Affine(o)]}

----------------------------------------------------------------------------
(* The Parent field: (object, parent) entries in mapping order.            *)

Absent == 0 - 2

\* The entries of a Parent field in which object o has parent par[o]
\* (Absent: no entry), listed by ascending object.
RECURSIVE EntriesFrom(_, _)
EntriesFrom(par, o) ==
    IF o >= MaxObjects THEN <<>>
    ELSE IF par[o] = Absent THEN EntriesFrom(par, o + 1)
    ELSE <<(<<o, par[o]>>)>> \o EntriesFrom(par, o + 1)

\* Parent fields: at most one entry per object, or one further entry that
\* names an object a second time as a root.
ParentFields ==
    LET base == {EntriesFrom(par, 0) :
                    par \in [Objects -> {Absent, NoParent} \cup Objects]}
    IN  base \cup {Append(p, <<d, NoParent>>) : p \in base, d \in Objects}

\* What a call reads of the scene before it looks at the hierarchy: the
\* dimensions, whether there is a Parent field, the transformation field and
\* the size of the target field.
Scenes ==
    {[is2D |-> d, hasParent |-> h, transformations |-> t, fieldSize |-> n] :
        d \in BOOLEAN, h \in BOOLEAN, t \in TransformationFields,
        n \in 0 .. MaxField}

\* Trade::SceneData::fieldCount(): the target field, the transformation
\* field and, when present, the Parent field.
FieldCount(s) == IF s.hasParent THEN 3 ELSE 2

\* The field id of the target field.
TargetField == 0

----------------------------------------------------------------------------
(* Preconditions.                                                          *)

EntryObjects(parents) == {parents[k][1] : k \in 1 .. Len(parents)}

\* Variant: only entries next to each other are compared.
HasAdjacentDuplicates(parents) ==
    \E j \in 1 .. (Len(parents) - 1) : parents[j][1] = parents[j + 1][1]

\* Two entries of the Parent field name the same object.
HasDuplicates(parents) ==
    \E j, k \in 1 .. Len(parents) : j # k /\ parents[j][1] = parents[k][1]

\* The parents recorded for object o.
ParentsOf(parents, o) ==
    {parents[k][2] : k \in {j \in 1 .. Len(parents) : parents[j][1] = o}}

\* The objects reached from the set `from` by following n parent links.
RECURSIVE Ancestors(_, _, _)
Ancestors(parents, from, n) ==
    IF n = 0 THEN from
    ELSE Ancestors(parents,
                   UNION {ParentsOf(parents, o) \ {NoParent} : o \in from},
                   n - 1)

\* Variant: only an object that is its own parent is found.
HasSelfParent(parents) ==
    \E k \in 1 .. Len(parents) : parents[k][1] = parents[k][2]

\* Some object's ancestor chain returns to the object.
HasCycle(parents) ==
    \E o \in EntryObjects(parents) :
        \E n \in 1 .. Len(parents) : o \in Ancestors(parents, {o}, n)

\* Object o is connected through the parent relation to a declared root:
\* its ancestor chain ends in an entry with no parent.
IsConnected(parents, o) ==
    \E n \in 0 .. Len(parents) :
        \E a \in Ancestors(parents, {o}, n) : NoParent \in ParentsOf(parents, a)

----------------------------------------------------------------------------
(* orderClusterParents(): the (object, parent) entries ordered so that a   *)
(* parent precedes its children.  Any such order is a possible result.     *)

\* The orderings of the entries in `left`, given the objects already placed.
RECURSIVE OrdersOf(_, _)
OrdersOf(left, placed) ==
    IF left = {} THEN {<<>>}
    ELSE UNION {{<<e>> \o rest : rest \in OrdersOf(left \ {e}, placed \cup {e[1]})} :
                    e \in {x \in left : x[2] = NoParent \/ x[2] \in placed}}

\* Variant: the connected entries in any order at all.
RECURSIVE PermutationsOf(_)
PermutationsOf(left) ==
    IF left = {} THEN {<<>>}
    ELSE UNION {{<<e>> \o rest : rest \in PermutationsOf(left \ {e})} : e \in left}

orderClusterParentsUnordered(parents) ==
    PermutationsOf({parents[k] : k \in {j \in 1 .. Len(parents) :
                                           IsConnected(parents, parents[j][1])}})

orderClusterParents(parents) ==
    OrdersOf({parents[k] : k \in {j \in 1 .. Len(parents) :
                                     IsConnected(parents, parents[j][1])}}, {})

----------------------------------------------------------------------------
VARIABLES
    scene,                    \* the Trade::SceneData passed to the call
    parents,                  \* its Parent field, once the call has read it
    fieldId,                  \* argument: the field to flatten
    globalTransformation,     \* argument: the transformation to prepend
    into,                     \* TRUE for the Into variant, FALSE for the allocating one
    transformations,          \* the output: the caller's buffer or the returned array
    pc,                       \* position of the call
    orderedClusteredParents,  \* result of orderClusterParents()
    absoluteTransformations,  \* the table, one slot per object
    mapping,                  \* the objects of the field entries read so far
    i,                        \* index of the running loop
    resolverCalls,            \* number of calls to orderClusterParents()
    steps,                    \* objects processed plus field entries looked up
    writes,                   \* per object, how often its table slot was written
    outputWrites              \* indices of the output written so far, in order

vars == <<scene, parents, fieldId, globalTransformation, into,
          transformations, pc, orderedClusteredParents, absoluteTransformations, mapping, i,
          resolverCalls, steps, writes, outputWrites>>

\* Sizes of the buffer handed to the Into variant: the field's size, or one
\* element more or less.
BufferSizes(s) == {n \in {s.fieldSize - 1, s.fieldSize, s.fieldSize + 1} : n >= 0}

Init ==
    /\ scene \in Scenes
    /\ parents = <<>>
    /\ fieldId \in {TargetField, FieldCount(scene)}
    /\ globalTransformation \in GlobalTransformations
    /\ into \in BOOLEAN
    /\ transformations \in
         IF into THEN {[k \in 1 .. n |-> Stale] : n \in BufferSizes(scene)}
         ELSE {<<>>}
    /\ pc = "call"
    /\ orderedClusteredParents = <<>>
    /\ absoluteTransformations = <<>>
    /\ mapping = <<>>
    /\ i = 0
    /\ resolverCalls = 0
    /\ steps = 0
    /\ writes = [o \in Objects |-> 0]
    /\ outputWrites = <<>>

\* Variant: the size of the Into buffer is not checked.
FailedPreconditionWithoutSize ==
    IF fieldId >= FieldCount(scene) THEN "fieldId"
    ELSE IF ~scene.is2D THEN "dimensions"
    ELSE IF ~scene.hasParent THEN "hierarchy"
    ELSE "none"

\* The first expectation of the call that the arguments do not meet, or
\* "none".  The Into variant also expects a buffer of the field's size.
\* The hierarchy is looked at only when these hold.
FailedPrecondition ==
    IF fieldId >= FieldCount(scene) THEN "fieldId"
    ELSE IF ~scene.is2D THEN "dimensions"
    ELSE IF ~scene.hasParent THEN "hierarchy"
    ELSE IF into /\ Len(transformations) # scene.fieldSize THEN "size"
    ELSE "none"

\* A precondition does not hold: the call ends in the failure outcome.
Fail ==
    /\ pc = "call"
    /\ FailedPrecondition # "none"
    /\ pc' = FailedPrecondition
    /\ UNCHANGED <<scene, parents, fieldId, globalTransformation, into,
                   transformations, orderedClusteredParents,
                   absoluteTransformations, mapping, i, resolverCalls, steps,
                   writes, outputWrites>>

\* The arguments are as expected: the Parent field is read and checked for
\* duplicates and cycles.
CheckHierarchy ==
    /\ pc = "call"
    /\ FailedPrecondition = "none"
    /\ parents' \in ParentFields
    /\ pc' = IF HasDuplicates(parents') THEN "duplicate"
             ELSE IF HasCycle(parents') THEN "cycle"
             ELSE "checked"
    /\ UNCHANGED <<scene, fieldId, globalTransformation, into,
                   transformations, orderedClusteredParents,
                   absoluteTransformations, mapping, i, resolverCalls, steps,
                   writes, outputWrites>>

\* Variant: the parents are ordered before the empty field is noticed.
ReturnEmptyAfterResolve ==
    /\ pc = "checked"
    /\ scene.fieldSize = 0
    /\ orderedClusteredParents' \in orderClusterParents(parents)
    /\ resolverCalls' = resolverCalls + 1
    /\ pc' = "done"
    /\ UNCHANGED <<scene, parents, fieldId, globalTransformation, into,
                   transformations, absoluteTransformations, mapping, i,
                   steps, writes, outputWrites>>

\* The preconditions hold and the field is empty: an empty result.
ReturnEmpty ==
    /\ pc = "checked"
    /\ scene.fieldSize = 0
    /\ pc' = "done"
    /\ UNCHANGED <<scene, parents, fieldId, globalTransformation, into,
                   transformations, orderedClusteredParents,
                   absoluteTransformations, mapping, i, resolverCalls, steps,
                   writes, outputWrites>>

\* Variant: slots only for the objects with a parent entry.
NewTableForParents == [o \in EntryObjects(parents) |-> Unknown]

\* The table of absolute transformations: a slot for every object below
\* mappingBound(), none written yet.
NewTable == [o \in Objects |-> Unknown]

\* The preconditions hold: the allocating variant allocates the output, the
\* parents are ordered and the table is set up.
Resolve ==
    /\ pc = "checked"
    /\ scene.fieldSize > 0
    /\ transformations' =
         IF into THEN transformations
         ELSE [k \in 1 .. scene.fieldSize |-> Uninitialized]
    /\ orderedClusteredParents' \in orderClusterParents(parents)
    /\ resolverCalls' = resolverCalls + 1
    /\ absoluteTransformations' = NewTable
    /\ i' = 1
    /\ pc' = "walk"
    /\ UNCHANGED <<scene, parents, fieldId, globalTransformation, into,
                   mapping, steps, writes, outputWrites>>

\* Variant: the local transformation is the left factor.
AbsoluteLocalFirst(entry, table) ==
    IF entry[2] = NoParent
    THEN Mul(scene.transformations[entry[1]], globalTransformation)
    ELSE Mul(scene.transformations[entry[1]], table[entry[2]])

\* The absolute transformation of the entry (object, parent), given the table.
Absolute(entry, table) ==
    IF entry[2] = NoParent
    THEN Mul(globalTransformation, scene.transformations[entry[1]])
    ELSE Mul(table[entry[2]], scene.transformations[entry[1]])

\* One object of the ordering is processed.
Walk ==
    /\ pc = "walk"
    /\ i <= Len(orderedClusteredParents)
    /\ LET entry == orderedClusteredParents[i]
       IN  /\ absoluteTransformations' =
                [absoluteTransformations EXCEPT
                    ![entry[1]] = Absolute(entry, absoluteTransformations)]
           /\ writes' = [writes EXCEPT ![entry[1]] = @ + 1]
    /\ steps' = steps + 1
    /\ i' = i + 1
    /\ UNCHANGED <<scene, parents, fieldId, globalTransformation, into,
                   transformations, pc, orderedClusteredParents, mapping,
                   resolverCalls, outputWrites>>

\* The pass is over and the ordering no longer needed: the output loop over
\* the entries of the target field begins.
BeginOutput ==
    /\ pc = "walk"
    /\ i > Len(orderedClusteredParents)
    /\ orderedClusteredParents' = <<>>
    /\ i' = 1
    /\ pc' = "output"
    /\ UNCHANGED <<scene, parents, fieldId, globalTransformation, into,
                   transformations, absoluteTransformations, mapping,
                   resolverCalls, steps, writes, outputWrites>>

\* Variant: the output is filled from its end.
OutputBackwards ==
    /\ pc = "output"
    /\ i <= scene.fieldSize
    /\ \E object \in Objects :
          /\ mapping' = Append(mapping, object)
          /\ transformations' =
               [transformations EXCEPT
                  ![scene.fieldSize + 1 - i] = absoluteTransformations[object]]
    /\ outputWrites' = Append(outputWrites, i)
    /\ steps' = steps + 1
    /\ i' = i + 1
    /\ pc' = IF i = scene.fieldSize THEN "done" ELSE "output"
    /\ UNCHANGED <<scene, parents, fieldId, globalTransformation, into,
                   orderedClusteredParents, absoluteTransformations,
                   resolverCalls, writes>>

\* Variant: an element whose object has no written slot is left as it was.
OutputKeepingUnknown ==
    /\ pc = "output"
    /\ i <= scene.fieldSize
    /\ \E object \in Objects :
          /\ mapping' = Append(mapping, object)
          /\ transformations' =
               IF absoluteTransformations[object] = Unknown THEN transformations
               ELSE [transformations EXCEPT ![i] = absoluteTransformations[object]]
    /\ outputWrites' = Append(outputWrites, i)
    /\ steps' = steps + 1
    /\ i' = i + 1
    /\ pc' = IF i = scene.fieldSize THEN "done" ELSE "output"
    /\ UNCHANGED <<scene, parents, fieldId, globalTransformation, into,
                   orderedClusteredParents, absoluteTransformations,
                   resolverCalls, writes>>

\* Variant: every lookup walks the ancestors of the entry's object, a step
\* for each.
OutputWalkingAncestors ==
    /\ pc = "output"
    /\ i <= scene.fieldSize
    /\ \E object \in Objects :
          /\ mapping' = Append(mapping, object)
          /\ transformations' =
               [transformations EXCEPT ![i] = absoluteTransformations[object]]
          /\ steps' = steps + Cardinality({n \in 0 .. MaxObjects :
                          Ancestors(parents, {object}, n) # {}})
    /\ outputWrites' = Append(outputWrites, i)
    /\ i' = i + 1
    /\ pc' = IF i = scene.fieldSize THEN "done" ELSE "output"
    /\ UNCHANGED <<scene, parents, fieldId, globalTransformation, into,
                   orderedClusteredParents, absoluteTransformations,
                   resolverCalls, writes>>

\* Entry i of the target field is read: the slot of the object it maps is
\* looked up and written to output element i.  After the last entry the
\* call returns.
Output ==
    /\ pc = "output"
    /\ i <= scene.fieldSize
    /\ \E object \in Objects :
          /\ mapping' = Append(mapping, object)
          /\ transformations' =
               [transformations EXCEPT ![i] = absoluteTransformations[object]]
    /\ outputWrites' = Append(outputWrites, i)
    /\ steps' = steps + 1
    /\ i' = i + 1
    /\ pc' = IF i = scene.fieldSize THEN "done" ELSE "output"
    /\ UNCHANGED <<scene, parents, fieldId, globalTransformation, into,
                   orderedClusteredParents, absoluteTransformations,
                   resolverCalls, writes>>

Next ==
    \/ Fail
    \/ CheckHierarchy
    \/ ReturnEmpty
    \/ Resolve
    \/ Walk
    \/ BeginOutput
    \/ Output

Spec == Init /\ [][Next]_vars

\* The call runs to its end: no step is held back forever.
FairSpec == Spec /\ WF_vars(Next)

Failed == pc \in {"fieldId", "dimensions", "hierarchy", "size", "duplicate", "cycle"}

Terminated == pc = "done" \/ Failed

----------------------------------------------------------------------------
(* The scene as the claims describe it.                                    *)

\* The objects of S left after n rounds of removing those with no parent
\* in what is left of S.
RECURSIVE Remaining(_, _)
Remaining(S, n) ==
    IF n = 0 \/ S = {} THEN S
    ELSE Remaining({o \in S : \E k \in 1 .. Len(parents) :
                                 parents[k][1] = o /\ parents[k][2] \in S},
                   n - 1)

\* Some objects remain however often the ones without a parent among them
\* are removed: each of them has a parent among them, so following parents
\* from any of them never ends, and an ancestor chain returns to its start.
Cyclic == Remaining(Objects, MaxObjects) # {}

\* Some object has more than one entry in the Parent field.
Duplicated ==
    \E o \in Objects :
        Cardinality({k \in 1 .. Len(parents) : parents[k][1] = o}) > 1

\* The call violates one of its preconditions.
Violation ==
    \/ fieldId >= FieldCount(scene)
    \/ ~scene.is2D
    \/ ~scene.hasParent
    \/ into /\ Len(transformations) # scene.fieldSize
    \/ Cyclic
    \/ Duplicated

\* The parent entry of object o in a relation without duplicates.
ParentEntry(o) ==
    parents[CHOOSE k \in 1 .. Len(parents) : parents[k][1] = o][2]

\* Object o has a chain of at most n parent links that ends in a root.
RECURSIVE Rooted(_, _)
Rooted(o, n) ==
    /\ \E k \in 1 .. Len(parents) : parents[k][1] = o
    /\ \/ ParentEntry(o) = NoParent
       \/ n > 0 /\ Rooted(ParentEntry(o), n - 1)

Connected(o) == Rooted(o, MaxObjects)

\* The objects from the root down to o.
RECURSIVE PathTo(_)
PathTo(o) ==
    IF ParentEntry(o) = NoParent THEN <<o>>
    ELSE Append(PathTo(ParentEntry(o)), o)

\* m[1] * (m[2] * (... * m[n])).
RECURSIVE Product(_)
Product(m) == IF Len(m) = 1 THEN m[1] ELSE Mul(m[1], Product(Tail(m)))

\* The factors of the absolute transformation of o, leftmost first.
Factors(o) ==
    LET path == PathTo(o)
    IN  <<globalTransformation>> \o
            [k \in 1 .. Len(path) |-> scene.transformations[path[k]]]

\* globalTransformation * L(root) * ... * L(parent) * L(o).
ChainProduct(o) == Product(Factors(o))

\* The field entries whose output element has been written.
Emitted == 1 .. Len(mapping)

----------------------------------------------------------------------------
\* C1: every emitted element of an entry whose object is connected to a
\* declared root is globalTransformation * L(root) * ... * L(parent) *
\* L(object), the factors in root-to-object order and the global
\* transformation leftmost.
C1_CompositionOrder ==
    \A k \in Emitted :
        Connected(mapping[k]) => transformations[k] = ChainProduct(mapping[k])

\* The products of the factors f taken in every order but the given one.
Reordered(f) ==
    {Product([k \in 1 .. Len(f) |-> f[q[k]]]) :
        q \in Permutations(1 .. Len(f)) \ {[k \in 1 .. Len(f) |-> k]}}

\* C1 witness: the chain 2 (root) -> 0 -> 1 under a non-identity global
\* transformation; the element of object 1 is global * L2 * L0 * L1 and is
\* the product in no other order.
C1_Witness ==
    /\ pc = "done"
    /\ globalTransformation = Shear
    /\ parents = <<(<<0, 2>>), (<<1, 0>>), (<<2, NoParent>>)>>
    /\ Len(mapping) > 0
    /\ mapping[1] = 1
    /\ PathTo(1) = <<2, 0, 1>>
    /\ transformations[1] =
          Mul(Mul(Mul(Shear, scene.transformations[2]), scene.transformations[0]),
              scene.transformations[1])
    /\ transformations[1] \notin Reordered(Factors(1))

\* C2: the output has as many elements as the field has entries, written in
\* field order, and element k is the absolute transformation of the object
\* mapped by entry k, whatever the object ids and the hierarchy are.
C2_FieldOrder ==
    /\ \A k \in Emitted :
          /\ outputWrites[k] = k
          /\ transformations[k] = absoluteTransformations[mapping[k]]
    /\ pc = "done" =>
          /\ Len(transformations) = scene.fieldSize
          /\ Len(outputWrites) = scene.fieldSize

\* C2 witness: a field that maps objects 2 and 0, in this order, then
\* returns two different transformations in the same order.
C2_Witness ==
    /\ pc = "done"
    /\ mapping = <<2, 0>>
    /\ Connected(2) /\ Connected(0)
    /\ transformations = <<ChainProduct(2), ChainProduct(0)>>
    /\ transformations[1] # transformations[2]

\* C3: a call that finds a cycle in the parent relation has ended in the
\* failure outcome there and then: it has not ordered the parents, it has
\* processed no object and written no output element, and it takes no
\* further step.
C3_CycleFails ==
    Cyclic =>
        /\ Failed
        /\ resolverCalls = 0
        /\ steps = 0
        /\ outputWrites = <<>>
        /\ ~ENABLED Next

\* C3 witness: a cycle of two objects, met by a call that is otherwise
\* valid, has ended the call as a cycle failure.
C3_Witness ==
    /\ pc = "cycle"
    /\ \E a, b \in Objects :
          /\ a # b
          /\ \E j, k \in 1 .. Len(parents) :
                parents[j] = <<a, b>> /\ parents[k] = <<b, a>>

\* C4: a call on a scene with two parent entries for one object only ever
\* fails: the parents are never ordered and no table slot or output element
\* is computed from either entry.
C4_DuplicateFails ==
    Duplicated =>
        /\ Failed
        /\ resolverCalls = 0
        /\ \A o \in Objects : writes[o] = 0
        /\ outputWrites = <<>>

\* C4 witness: an object with two different parents, met by a call that is
\* otherwise valid, has ended the call as a duplicate failure.
C4_Witness ==
    /\ pc = "duplicate"
    /\ \E j, k \in 1 .. Len(parents) :
          /\ parents[j][1] = parents[k][1]
          /\ parents[j][2] # parents[k][2]

\* What either variant leaves for the field: the chain product for an
\* entry of a connected object, the unwritten slot's value for any other.
Flattened ==
    [k \in 1 .. scene.fieldSize |->
        IF Connected(mapping[k]) THEN ChainProduct(mapping[k]) ELSE Unknown]

C7_DisconnectedIsSafe ==
    ~Violation =>
        /\ ~Failed
        /\ (pc = "walk" /\ i <= Len(orderedClusteredParents)) =>
              LET entry == orderedClusteredParents[i]
              IN  /\ entry[1] \in DOMAIN absoluteTransformations
                  /\ entry[2] # NoParent => entry[2] \in DOMAIN absoluteTransformations
        /\ (pc = "output" /\ i <= scene.fieldSize) =>
              /\ Objects \subseteq DOMAIN absoluteTransformations
              /\ i \in DOMAIN transformations
        /\ pc = "done" => Len(transformations) = scene.fieldSize

\* C7 witness: a call has returned for a field that maps an object without
\* a parent entry and an object in a loose subtree.
C7_Witness ==
    /\ pc = "done"
    /\ Len(transformations) = scene.fieldSize
    /\ \E j, k \in 1 .. Len(mapping) :
          /\ mapping[j] \notin EntryObjects(parents)
          /\ mapping[k] \in EntryObjects(parents)
          /\ ~Connected(mapping[k])

\* C8: a call that violates a precondition never gets past the check, and
\* at the failure nothing has been computed: no parents ordered, no object
\* processed, no output element written, the Into buffer as the caller
\* passed it.
C8_FailsBeforeTraversal ==
    /\ Violation => (pc = "call" \/ Failed)
    /\ Failed =>
          /\ resolverCalls = 0
          /\ steps = 0
          /\ outputWrites = <<>>
          /\ \A k \in DOMAIN transformations : transformations[k] = Stale

\* C8 witness: an Into call with a buffer of the wrong, nonzero size on an
\* otherwise valid scene has failed.
C8_Witness ==
    /\ pc = "size"
    /\ into
    /\ Len(transformations) > 0
    /\ Len(transformations) # scene.fieldSize
    /\ ~Cyclic /\ ~Duplicated

\* The number of objects in the ordering of a valid parent relation.
Ordered == Cardinality({o \in Objects : Connected(o)})

\* C9: the pass processes each object of the ordering once and the output
\* loop looks each field entry up once, n + m steps whatever the depth of
\* the hierarchy, and the call terminates.
C9_SinglePass ==
    /\ <>Terminated
    /\ [](pc = "walk" => steps = i - 1)
    /\ [](pc = "output" => steps = Ordered + i - 1)
    /\ []((pc = "done" /\ scene.fieldSize > 0) =>
            /\ steps = Ordered + scene.fieldSize
            /\ \A o \in Objects : writes[o] = IF Connected(o) THEN 1 ELSE 0)

\* C9 witness: a chain of three objects and a field of two entries took
\* five steps.
C9_Witness ==
    /\ pc = "done"
    /\ scene.fieldSize = 2
    /\ \E o \in Objects : Connected(o) /\ Len(PathTo(o)) = 3
    /\ steps = 5

====
